---- MODULE Spec2Model ----
(***************************************************************************)
(* Model of the quota section component (KiroQuotaSection.tsx and its      *)
(* Copilot twin): the grid-column hook, the pagination hook, the view-mode *)
(* logic, the refresh coordination with the external loading flag and the  *)
(* per-credential quota fetches.                                           *)
(*                                                                         *)
(* One action is one event-loop task: an event handler (or a prop change   *)
(* pushed by the parent), the re-render it causes and the effects of that  *)
(* render.  React flushes the pending passive effects of a render before   *)
(* it handles the next event, so no handler runs between a render and its  *)
(* effects.                                                                *)
(***************************************************************************)
EXTENDS Integers, Sequences, FiniteSets, TLC

\* ------------------------------------------------------------------ bounds
MaxFiles == 40          \* longest credential list of the paging specification
MaxFetchFiles == 2      \* credential names of the refresh specification
MaxWidthSteps == 10     \* container widths are 0, 190, ..., 190 * MaxWidthSteps
MaxClicks == 2          \* refresh clicks counted per behaviour
MaxFanout == 4          \* longest credential list of the fan-out specification

\* ------------------------------------------------------- program constants
MIN_CARD_WIDTH == 380
MAX_ITEMS_PER_PAGE == 14
MAX_SHOW_ALL_THRESHOLD == 30

VARIABLES
  filteredFiles,        \* prop files, filtered by provider: a sequence of names
  loading,              \* prop loading
  disabled,             \* prop disabled
  mounted,              \* the section is in the tree: false after its teardown
  columns,              \* useGridColumns: useState(1)
  observed,             \* useGridColumns: the observer and the container it was given
  page,                 \* pagination hook: useState(1)
  viewMode,             \* useState('paged')
  showTooManyWarning,   \* useState(false)
  autoSwitchQueued,     \* a microtask of the auto-switch effect is queued and not cancelled
  sectionLoading,       \* useState(false)
  quotaMap,             \* quota store: name -> quota state
  pendingRefreshRef,    \* useRef(false)
  prevLoadingRef,       \* useRef(loading)
  inflight,             \* loadQuotaForFile calls awaiting fetchKiroQuota: <<batch, name>>
  requests,             \* those of inflight whose apiClient.get was issued
  answers,              \* history: name -> the reply that wrote its entry of quotaMap
  nClicks,              \* history: refresh clicks so far
  nBatches,             \* history: loadAllQuotas calls so far
  clicksSinceBatch,     \* history: refresh clicks since the last loadAllQuotas call
  last                  \* history: the event of the last step and what it saw

vars == <<filteredFiles, loading, disabled, mounted, columns, observed, page, viewMode,
          showTooManyWarning, autoSwitchQueued, sectionLoading, quotaMap,
          pendingRefreshRef, prevLoadingRef, inflight, requests, answers,
          nClicks, nBatches, clicksSinceBatch, last>>

pagingVars == <<columns, observed, page, viewMode, showTooManyWarning, autoSwitchQueued>>
fetchVars == <<sectionLoading, quotaMap, inflight, requests, answers>>
refreshVars == <<pendingRefreshRef, prevLoadingRef, nClicks, nBatches, clicksSinceBatch>>

\* ------------------------------------------------------------ arithmetic
Min(a, b) == IF a <= b THEN a ELSE b
Max(a, b) == IF a >= b THEN a ELSE b
\* Math.ceil(a / b) for a >= 0, b >= 1
Ceil(a, b) == (a + b - 1) \div b
\* Math.floor(a / b) for a >= 0, b >= 1
Floor(a, b) == a \div b

\* ------------------------------------------------------ the input domains
Prefix(n) == [i \in 1..n |-> i]
PagingLists == {Prefix(n) : n \in 0..MaxFiles}

RECURSIVE Ascending(_)
Ascending(S) ==
  IF S = {} THEN <<>>
  ELSE LET m == CHOOSE x \in S : \A y \in S : x <= y
       IN <<m>> \o Ascending(S \ {m})
FetchLists == {Ascending(S) : S \in SUBSET (1..MaxFetchFiles)}

\* the lists of the fetch specification may hold credential 0, which has no identifier
FetchLists0 ==
  {Prefix(n) : n \in 0..MaxFetchFiles} \cup {Prefix(n) \o <<0>> : n \in 0..MaxFetchFiles}

\* the lists of the fan-out specification: longer than a page of one column
FanoutLists == {Prefix(n) : n \in 1..MaxFanout}

Widths == {190 * k : k \in 0..MaxWidthSteps}
ErrorStatuses == {404, 500}
Titles == {"", "Pro"}

Names(f) == {f[i] : i \in DOMAIN f}

\* ------------------------------------------------------------ grid columns
\* the ResizeObserver callback: Math.max(1, Math.floor(width / minCardWidth))
gridColumns(width, minCardWidth) == Max(1, Floor(width, minCardWidth))

\* -------------------------------------------------------------- pagination
showAllAllowedOf(f) == Len(f) <= MAX_SHOW_ALL_THRESHOLD
\* mutant: the stored mode used as it is
effectiveViewModeOf_Stored(vm, f) == vm
effectiveViewModeOf(vm, f) == IF vm = "all" /\ ~showAllAllowedOf(f) THEN "paged" ELSE vm

\* mutants: the page size without the cap, and without the all branch
pageSizeOf_NoCap(items, cols, vm) == IF vm = "all" THEN Max(1, Len(items)) ELSE cols * 3
pageSizeOf_AlwaysPaged(items, cols, vm) == Min(cols * 3, MAX_ITEMS_PER_PAGE)
pageSizeOf(items, cols, vm) ==
  IF vm = "all" THEN Max(1, Len(items)) ELSE Min(cols * 3, MAX_ITEMS_PER_PAGE)
\* mutant: Math.floor for Math.ceil
totalPagesOf_Floor(items, size) == Max(1, Floor(Len(items), size))
totalPagesOf(items, size) == Max(1, Ceil(Len(items), size))
\* mutant: the cursor unclamped
currentPageOf_NoClamp(p, total) == p
currentPageOf(p, total) == Min(p, total)
\* items.slice(start, end): indices start..end-1 (0-based), cut at the length
Slice(items, start, end) ==
  LET s == Min(Max(start, 0), Len(items))
      e == Min(Max(end, 0), Len(items))
  IN [i \in 1..Max(e - s, 0) |-> items[s + i]]
\* mutant: the page cursor taken as 0-based
pageItemsOf_ZeroBased(items, cur, size) ==
  LET start == cur * size IN Slice(items, start, start + size)
pageItemsOf(items, cur, size) ==
  LET start == (cur - 1) * size IN Slice(items, start, start + size)

showAllAllowed == showAllAllowedOf(filteredFiles)
effectiveViewMode == effectiveViewModeOf(viewMode, filteredFiles)
pageSize == pageSizeOf(filteredFiles, columns, effectiveViewMode)
totalPages == totalPagesOf(filteredFiles, pageSize)
currentPage == currentPageOf(page, totalPages)
pageItems == pageItemsOf(filteredFiles, currentPage, pageSize)

\* mutant: goToPrev without its floor
goToPrevPage_NoFloor(p) == p - 1
\* goToPrev: setPage((prev) => Math.max(1, prev - 1))
goToPrevPage(p) == Max(1, p - 1)
\* goToNext: setPage((prev) => Math.min(totalPages, prev + 1))
goToNextPage(p, total) == Min(total, p + 1)
\* mutant: the reset effect missing
resetPage_Never(modeBefore, modeAfter, p) == p
\* the effect of the pagination hook, deps [viewMode]: setPage(1)
resetPage(modeBefore, modeAfter, p) == IF modeAfter # modeBefore THEN 1 ELSE p

\* the auto-switch effect, deps [showAllAllowed, viewMode]: when a dep changed the
\* cleanup cancels the queued microtask and the effect queues a new one or returns
\* mutant: the effect without its cleanup
autoSwitchEffect_NoCancel(allowedBefore, vmBefore, allowedAfter, vmAfter, queued) ==
  queued \/ (~allowedAfter /\ vmAfter = "all")
autoSwitchEffect(allowedBefore, vmBefore, allowedAfter, vmAfter, queued) ==
  IF allowedAfter # allowedBefore \/ vmAfter # vmBefore
  THEN ~allowedAfter /\ vmAfter = "all"
  ELSE queued

\* the onClick of the all-view button
allClickMode(vm, f) == IF Len(f) > MAX_SHOW_ALL_THRESHOLD THEN vm ELSE "all"
\* mutant: the click past the threshold raising no warning
allClickWarning_Silent(warning, f) == warning
allClickWarning(warning, f) == IF Len(f) > MAX_SHOW_ALL_THRESHOLD THEN TRUE ELSE warning

\* ------------------------------------------------------------- quota store
\* a field that is undefined; the empty string is 0 where names are concerned
Undefined == -1
EmptyName == 0
\* the AuthFileItem of a name: odd names carry an id, even names only their name,
\* the empty name nothing
Credential(n) ==
  [id |-> IF n % 2 = 1 THEN n ELSE Undefined, auth_id |-> Undefined,
   authId |-> Undefined, name |-> n]
\* a ?? b
Coalesce(a, b) == IF a # Undefined THEN a ELSE b
\* file.id ?? file.auth_id ?? file.authId ?? file.name
authIdOf(file) == Coalesce(file.id, Coalesce(file.auth_id, Coalesce(file.authId, file.name)))
\* mutant: the lookup issued whatever the identifier
lookupIssued_Always(file) == TRUE
\* fetchKiroQuota reaches apiClient.get: if (!authId) throw
lookupIssued(file) == authIdOf(file) # Undefined /\ authIdOf(file) # EmptyName

\* what fetchKiroQuota ends with: the response of the lookup, or what was thrown
SuccessReplies == {[ok |-> TRUE, subscription_title |-> t] : t \in Titles}
FailureReplies == {[ok |-> FALSE, message |-> "request_failed", status |-> c] : c \in ErrorStatuses}
MissingIdFailure == [ok |-> FALSE, message |-> "kiro_quota.missing_auth_id", status |-> Undefined]
Replies == SuccessReplies \cup FailureReplies

EmptyMap == [n \in {} |-> [status |-> "idle"]]
LoadingState == [status |-> "loading", items |-> <<>>]
\* buildKiroQuotaItems: the ids of the items pushed
buildKiroQuotaItems(response) == <<"credit_usage", "context_usage">>
\* response.subscription_title || undefined
SuccessState(response) ==
  [status |-> "success", items |-> buildKiroQuotaItems(response),
   subscriptionTitle |-> IF response.subscription_title = "" THEN "undefined"
                         ELSE response.subscription_title]
ErrorState(message, code) ==
  [status |-> "error", items |-> <<>>, error |-> message, errorStatus |-> code]
\* mutant: the catch block dropping the status of the failure
quotaStateOf_NoStatus(reply) ==
  IF reply.ok THEN SuccessState(reply) ELSE ErrorState(reply.message, Undefined)
\* the try / catch of loadQuotaForFile after the await
quotaStateOf(reply) ==
  IF reply.ok THEN SuccessState(reply) ELSE ErrorState(reply.message, reply.status)
Outcomes == {quotaStateOf(r) : r \in Replies \cup {MissingIdFailure}}

\* mutant: the update without the spread of the previous map
setQuota_NoSpread(m, name, state) == [n \in {name} |-> state]
\* setQuota: setQuotaMap((prev) => ({ ...prev, [fileName]: state }))
setQuota(m, name, state) ==
  [n \in DOMAIN m \cup {name} |-> IF n = name THEN state ELSE m[n]]
\* mutant: the previous result kept until the new one arrives
markLoading_KeepOld(m, f) ==
  [n \in DOMAIN m \cup Names(f) |-> IF n \in DOMAIN m THEN m[n] ELSE LoadingState]
\* the synchronous start of every loadQuotaForFile of a batch
markLoading(m, f) ==
  [n \in DOMAIN m \cup Names(f) |-> IF n \in Names(f) THEN LoadingState ELSE m[n]]

\* ------------------------------------------------------ refresh coordinator
\* mutants: the effect level-triggered, and the effect without its pending check
shouldFetch_Level(pending, load, wasLoading) == pending /\ ~load
shouldFetch_NoPending(pending, load, wasLoading) == ~load /\ wasLoading
\* the loading-completion effect: the three early returns
shouldFetch(pending, load, wasLoading) == pending /\ ~load /\ wasLoading
\* mutant: the clear-stale effect without its loading check
clearStale_WhileLoading(lenBefore, loadBefore, lenAfter, loadAfter) ==
  (lenAfter # lenBefore \/ loadAfter # loadBefore) /\ lenAfter = 0
\* the clear-stale effect, deps [filteredFiles.length, loading]
clearStale(lenBefore, loadBefore, lenAfter, loadAfter) ==
  (lenAfter # lenBefore \/ loadAfter # loadBefore) /\ ~loadAfter /\ lenAfter = 0
\* mutant: the busy flag left out of isRefreshing
isRefreshing_LoadingOnly == loading
isRefreshing == sectionLoading \/ loading
\* mutant: the pending flag left set when the batch starts
pendingAfterEffect_Kept(pending, fire) == pending
\* the loading-completion effect: pendingRefreshRef.current = false before loadAllQuotas()
pendingAfterEffect(pending, fire) == IF fire THEN FALSE ELSE pending
\* mutant: the fan-out over the visible page only
batchFiles_Visible(files, visible) == visible
\* loadAllQuotas: filteredFiles.map(loadQuotaForFile)
batchFiles(files, visible) == files
\* mutant: the busy flag cleared by the first fetch that settles
batchSettled_First(left, b) == TRUE
\* await Promise.all(...): no loadQuotaForFile of batch b is left unsettled
batchSettled(left, b) == ~\E r \in left : r[1] = b
\* mutant: loadAllQuotas without its early return
batchStarted_Always(fire, n) == fire
\* loadAllQuotas: if (filteredFiles.length === 0) return
batchStarted(fire, n) == fire /\ n > 0
\* mutant: the fetches of credentials that left the list aborted by the render
outstanding_Cancelled(left, files) == {r \in left : r[2] \in Names(files)}
\* a render has no hold on the promises of loadQuotaForFile: they stay pending
outstanding(left, files) == left
\* the history of replies: without the names of S, and with the reply to a name
Without(h, S) == [n \in DOMAIN h \ S |-> h[n]]
Answered(h, name, reply) == [n \in DOMAIN h \cup {name} |-> IF n = name THEN reply ELSE h[n]]

\* --------------------------------------------------------------------- Init
InitWith(lists, loadings) ==
  /\ filteredFiles \in lists
  /\ loading \in loadings
  /\ disabled = FALSE
  /\ mounted = TRUE
  /\ columns = 1
  /\ observed = IF Len(filteredFiles) > 0 THEN "current" ELSE "none"
  /\ page = 1
  /\ viewMode = "paged"
  /\ showTooManyWarning = FALSE
  /\ autoSwitchQueued = FALSE
  /\ sectionLoading = FALSE
  /\ quotaMap = EmptyMap
  /\ pendingRefreshRef = FALSE
  /\ prevLoadingRef = loading
  /\ inflight = {}
  /\ requests = {}
  /\ answers = EmptyMap
  /\ nClicks = 0
  /\ nBatches = 0
  /\ clicksSinceBatch = 0
  /\ last = [op |-> "mount", cur |-> 1]

Event(op) == last' = [op |-> op, cur |-> currentPage]

\* ------------------------------------------------------------------ actions
GoToPrev ==
  /\ mounted
  /\ page' = goToPrevPage(page)
  /\ Event("goToPrev")
  /\ UNCHANGED <<filteredFiles, loading, disabled, mounted, columns, observed, viewMode,
                 showTooManyWarning, autoSwitchQueued, fetchVars, refreshVars>>

GoToNext ==
  /\ mounted
  /\ page' = goToNextPage(page, totalPages)
  /\ Event("goToNext")
  /\ UNCHANGED <<filteredFiles, loading, disabled, mounted, columns, observed, viewMode,
                 showTooManyWarning, autoSwitchQueued, fetchVars, refreshVars>>

\* a state update of viewMode and the effects of the render that follows
ViewModeRender(vm) ==
  /\ mounted
  /\ viewMode' = vm
  /\ page' = resetPage(effectiveViewMode, effectiveViewModeOf(vm, filteredFiles), page)
  /\ autoSwitchQueued' =
       autoSwitchEffect(showAllAllowed, viewMode, showAllAllowed, vm, autoSwitchQueued)

ClickPaged ==
  /\ ViewModeRender("paged")
  /\ Event("clickPaged")
  /\ UNCHANGED <<filteredFiles, loading, disabled, mounted, columns, observed,
                 showTooManyWarning, fetchVars, refreshVars>>

ClickAll ==
  /\ ViewModeRender(allClickMode(viewMode, filteredFiles))
  /\ showTooManyWarning' = allClickWarning(showTooManyWarning, filteredFiles)
  /\ Event("clickAll")
  /\ UNCHANGED <<filteredFiles, loading, disabled, mounted, columns, observed,
                 fetchVars, refreshVars>>

DismissWarning ==
  /\ mounted
  /\ showTooManyWarning
  /\ showTooManyWarning' = FALSE
  /\ Event("dismissWarning")
  /\ UNCHANGED <<filteredFiles, loading, disabled, mounted, columns, observed, page, viewMode,
                 autoSwitchQueued, fetchVars, refreshVars>>

\* the microtask queued by the auto-switch effect, unless cancelled
RunAutoSwitch ==
  /\ autoSwitchQueued
  /\ ViewModeRender("paged")
  /\ showTooManyWarning' = TRUE
  /\ Event("autoSwitch")
  /\ UNCHANGED <<filteredFiles, loading, disabled, mounted, columns, observed,
                 fetchVars, refreshVars>>

\* the ResizeObserver callback of the observed grid container
Resize(width) ==
  /\ mounted
  /\ observed = "current"
  /\ columns' = gridColumns(width, MIN_CARD_WIDTH)
  /\ Event("resize")
  /\ UNCHANGED <<filteredFiles, loading, disabled, mounted, observed, page, viewMode,
                 showTooManyWarning, autoSwitchQueued, fetchVars, refreshVars>>

\* the rendered grid container gets a new width: the callback runs if this
\* container is the one that observer.observe(el) was given
Layout(width) ==
  /\ mounted
  /\ Len(filteredFiles) > 0
  /\ columns' = IF observed = "current" THEN gridColumns(width, MIN_CARD_WIDTH) ELSE columns
  /\ last' = [op |-> "layout", cur |-> currentPage, width |-> width]
  /\ UNCHANGED <<filteredFiles, loading, disabled, mounted, observed, page, viewMode,
                 showTooManyWarning, autoSwitchQueued, fetchVars, refreshVars>>

\* the observer, still connected, reports the box of the container that left the
\* tree: its content rectangle is empty
RemovedNotify ==
  /\ mounted
  /\ observed = "removed"
  /\ observed' = "detached"
  /\ columns' = gridColumns(0, MIN_CARD_WIDTH)
  /\ Event("removedNotify")
  /\ UNCHANGED <<filteredFiles, loading, disabled, mounted, page, viewMode,
                 showTooManyWarning, autoSwitchQueued, fetchVars, refreshVars>>

\* the teardown of the section: the cleanup of the effect, observer.disconnect()
Unmount ==
  /\ mounted
  /\ mounted' = FALSE
  /\ observed' = IF observed = "none" THEN "none" ELSE "disconnected"
  /\ autoSwitchQueued' = FALSE
  /\ Event("unmount")
  /\ UNCHANGED <<filteredFiles, loading, disabled, columns, page, viewMode,
                 showTooManyWarning, fetchVars, refreshVars>>

\* the parent renders the section with new props: the render and its effects
Props(f, l, op) ==
  /\ mounted
  /\ filteredFiles' = f
  /\ loading' = l
  \* the grid leaves the tree with an empty list; nothing disconnects its observer
  /\ observed' = IF observed = "current" /\ Len(f) = 0 THEN "removed" ELSE observed
  /\ page' = resetPage(effectiveViewMode, effectiveViewModeOf(viewMode, f), page)
  /\ autoSwitchQueued' =
       autoSwitchEffect(showAllAllowed, viewMode, showAllAllowedOf(f), viewMode,
                        autoSwitchQueued)
  /\ UNCHANGED <<disabled, mounted, columns, viewMode, showTooManyWarning, nClicks>>
  /\ LET fire == shouldFetch(pendingRefreshRef, l, prevLoadingRef)
         started == batchStarted(fire, Len(f))
         \* the files of the render the effect belongs to
         batch == batchFiles(f, pageItemsOf(f, currentPage', pageSize'))
     IN /\ prevLoadingRef' = l
        /\ pendingRefreshRef' = pendingAfterEffect(pendingRefreshRef, fire)
        /\ nBatches' = IF fire THEN nBatches + 1 ELSE nBatches
        /\ clicksSinceBatch' = IF fire THEN 0 ELSE clicksSinceBatch
        /\ sectionLoading' = IF started THEN TRUE ELSE sectionLoading
        /\ inflight' = IF started
                       THEN outstanding(inflight, f) \cup {<<nBatches + 1, n>> : n \in Names(batch)}
                       ELSE outstanding(inflight, f)
        /\ requests' = IF started
                       THEN requests \cup {<<nBatches + 1, n>> :
                                             n \in {x \in Names(batch) : lookupIssued(Credential(x))}}
                       ELSE requests
        /\ answers' = IF clearStale(Len(filteredFiles), loading, Len(f), l)
                      THEN EmptyMap
                      ELSE IF started THEN Without(answers, Names(batch)) ELSE answers
        /\ quotaMap' = IF clearStale(Len(filteredFiles), loading, Len(f), l)
                       THEN EmptyMap
                       ELSE IF started THEN markLoading(quotaMap, batch) ELSE quotaMap
        /\ last' = [op |-> op, cur |-> currentPage, fired |-> fire]

SetFiles(lists) == \E f \in lists : f # filteredFiles /\ Props(f, loading, "files")
SetLoading == Props(filteredFiles, ~loading, "loading")
Reloaded(lists) == \E f \in lists : loading /\ f # filteredFiles /\ Props(f, FALSE, "reloaded")

SetDisabled ==
  /\ mounted
  /\ disabled' = ~disabled
  /\ Event("disabled")
  /\ UNCHANGED <<filteredFiles, loading, mounted, pagingVars, fetchVars, refreshVars>>

\* handleRefresh, behind disabled={disabled || isRefreshing}
ClickRefresh ==
  /\ mounted
  /\ ~disabled /\ ~isRefreshing
  /\ nClicks < MaxClicks
  /\ pendingRefreshRef' = TRUE
  /\ nClicks' = nClicks + 1
  /\ clicksSinceBatch' = clicksSinceBatch + 1
  /\ Event("refresh")
  /\ UNCHANGED <<filteredFiles, loading, disabled, mounted, pagingVars, fetchVars,
                 prevLoadingRef, nBatches>>

\* the response of one quota request: the second setQuota of loadQuotaForFile,
\* and setSectionLoading(false) once Promise.all of the batch has settled
Response(b, name, reply) ==
  \* after the teardown React drops the state updates of the continuation
  /\ mounted
  /\ <<b, name>> \in inflight
  \* a fetch that issued no lookup ends with what fetchKiroQuota threw
  /\ IF <<b, name>> \in requests THEN reply \in Replies ELSE reply = MissingIdFailure
  /\ inflight' = inflight \ {<<b, name>>}
  /\ requests' = requests \ {<<b, name>>}
  /\ answers' = Answered(answers, name, reply)
  /\ quotaMap' = setQuota(quotaMap, name, quotaStateOf(reply))
  /\ sectionLoading' = IF batchSettled(inflight', b) THEN FALSE ELSE sectionLoading
  /\ last' = [op |-> "response", cur |-> currentPage, name |-> name]
  /\ UNCHANGED <<filteredFiles, loading, disabled, mounted, pagingVars, refreshVars>>

\* ----------------------------------------------------------- specifications
\* the paging specification: long lists, the grid, the pager and the view mode
Init == InitWith(PagingLists, {FALSE})
Next ==
  \/ GoToPrev
  \/ GoToNext
  \/ ClickPaged
  \/ ClickAll
  \/ DismissWarning
  \/ RunAutoSwitch
  \/ \E w \in Widths : Resize(w)
  \/ RemovedNotify
  \/ SetFiles(PagingLists)
Spec == Init /\ [][Next]_vars

\* the refresh specification: short lists, the loading flag, clicks and responses
InitRefresh == InitWith(FetchLists, BOOLEAN)
NextRefresh ==
  \/ ClickRefresh
  \/ SetDisabled
  \/ SetLoading
  \/ SetFiles(FetchLists)
  \/ Reloaded(FetchLists)
  \/ \E r \in inflight : \E o \in Replies \cup {MissingIdFailure} : Response(r[1], r[2], o)
SpecRefresh == InitRefresh /\ [][NextRefresh]_vars

\* the batch specification: one list per behaviour, which may hold the credential
\* without identifier; with the fairness of a lookup service that always answers
InitBatch == InitWith(FetchLists0, BOOLEAN)
Responses == \E r \in inflight : \E o \in Replies \cup {MissingIdFailure} : Response(r[1], r[2], o)
NextBatch ==
  \/ ClickRefresh
  \/ SetLoading
  \/ Responses
SpecBatch == InitBatch /\ [][NextBatch]_vars
SpecBatchFair == SpecBatch /\ WF_vars(Responses)

\* the hung-request specification: the lookup for one credential never answers,
\* every other fetch of a batch settles
Hung == 1
Answering == (0..MaxFetchFiles) \ {Hung}
Responds(n) ==
  \E r \in inflight :
    r[2] = n /\ \E o \in Replies \cup {MissingIdFailure} : Response(r[1], r[2], o)
NextHang ==
  \/ ClickRefresh
  \/ SetLoading
  \/ \E n \in Answering : Responds(n)
SpecHang == InitBatch /\ [][NextHang]_vars /\ \A n \in Answering : WF_vars(Responds(n))

\* the fan-out specification: a list longer than a page, the pager, the view mode
\* and a lookup service that answers every request with the same quota
InitFanout == InitWith(FanoutLists, BOOLEAN)
Succeeds ==
  \E r \in inflight : Response(r[1], r[2], [ok |-> TRUE, subscription_title |-> "Pro"])
NextFanout ==
  \/ ClickRefresh
  \/ SetLoading
  \/ GoToPrev
  \/ GoToNext
  \/ ClickPaged
  \/ ClickAll
  \/ Succeeds
SpecFanout == InitFanout /\ [][NextFanout]_vars

\* the grid specification: the grid container comes and goes with the list
InitGrid == InitWith(FetchLists, {FALSE})
NextGrid ==
  \/ \E w \in Widths : Layout(w)
  \/ SetFiles(FetchLists)
  \/ RemovedNotify
  \/ Unmount
SpecGrid == InitGrid /\ [][NextGrid]_vars

TypeOK ==
  /\ loading \in BOOLEAN /\ disabled \in BOOLEAN
  /\ columns \in Nat /\ page \in Nat
  /\ mounted \in BOOLEAN
  /\ observed \in {"none", "current", "removed", "detached", "disconnected"}
  /\ viewMode \in {"paged", "all"}
  /\ showTooManyWarning \in BOOLEAN /\ autoSwitchQueued \in BOOLEAN
  /\ sectionLoading \in BOOLEAN
  /\ pendingRefreshRef \in BOOLEAN /\ prevLoadingRef \in BOOLEAN
  /\ \A n \in DOMAIN quotaMap : quotaMap[n] \in Outcomes \cup {LoadingState}

\* ------------------------------------------------------------------ claims

\* C1: a refresh click made while loading is false starts no fetch batch; neither
\* does the false -> true flip of the loading flag; the true -> false flip observed
\* with the refresh still pending starts exactly one batch and consumes the request;
\* and a batch starts at no other step.
C1_FetchAtLoadingCompletion ==
  [][ /\ (last'.op = "refresh" => nBatches' = nBatches)
      /\ (~loading /\ loading' => nBatches' = nBatches)
      /\ (pendingRefreshRef /\ loading /\ ~loading'
            => nBatches' = nBatches + 1 /\ ~pendingRefreshRef')
      /\ (nBatches' # nBatches => pendingRefreshRef /\ loading /\ ~loading') ]_vars
\* one click, then false -> true -> false: the one batch has just started
C1_Witness ==
  /\ last.op = "loading" /\ ~loading
  /\ nClicks = 1 /\ nBatches = 1
  /\ filteredFiles # <<>>
  /\ sectionLoading
  /\ inflight = {<<1, n>> : n \in Names(filteredFiles)}

\* C2: every loadAllQuotas call is preceded by a refresh click made after the call
\* before it, and the calls never outnumber the clicks, whatever the loading flag
\* was at mount and however it flips.
C2_NoSpontaneousFetch ==
  [][ /\ (nBatches' # nBatches => clicksSinceBatch >= 1)
      /\ nBatches' <= nClicks' ]_vars
\* the flag went true -> false with no refresh ever requested: nothing was fetched
C2_Witness ==
  /\ last.op = "loading" /\ ~loading
  /\ nClicks = 0 /\ nBatches = 0
  /\ filteredFiles # <<>>
  /\ ~sectionLoading /\ inflight = {} /\ quotaMap = EmptyMap

\* C3: the visible page lies in 1..totalPages and the page size is at least 1.
C3_PageInRange ==
  /\ 1 <= currentPage
  /\ currentPage <= totalPages
  /\ pageSize >= 1
\* the list shrank under the cursor: the stored page is beyond the last page
C3_Witness ==
  /\ last.op = "files"
  /\ last.cur > totalPages
  /\ page > totalPages
  /\ currentPage = totalPages

\* C4: in paged mode the page size is columns * 3, capped at 14, and at least 1.
C4_PagedPageSize ==
  effectiveViewMode = "paged" =>
    /\ pageSize = (IF columns * 3 <= 14 THEN columns * 3 ELSE 14)
    /\ pageSize >= 1
\* five columns: fifteen cards would fit, the cap decides
C4_Witness ==
  /\ effectiveViewMode = "paged"
  /\ last.op = "resize"
  /\ columns = 5
  /\ pageSize = 14
  /\ Len(filteredFiles) = 40

\* C5: in all mode the page size is the list length (1 for an empty list), there
\* is one page and it shows the whole list.
C5_AllModeOnePage ==
  effectiveViewMode = "all" =>
    /\ pageSize = (IF Len(filteredFiles) = 0 THEN 1 ELSE Len(filteredFiles))
    /\ totalPages = 1
    /\ pageItems = filteredFiles
\* the all view of the longest list it admits, with a grid that would page it
C5_Witness ==
  /\ effectiveViewMode = "all"
  /\ last.op = "clickAll"
  /\ Len(filteredFiles) = 30
  /\ columns = 3

\* C6: totalPages is the least t >= 1 with t * pageSize >= items.length; 40
\* credentials in three columns, paged, give pages of 9 and 5 pages; an empty
\* list gives 1 page.
C6_TotalPages ==
  /\ totalPages >= 1
  /\ totalPages * pageSize >= Len(filteredFiles)
  /\ (totalPages > 1 => (totalPages - 1) * pageSize < Len(filteredFiles))
  /\ (Len(filteredFiles) = 40 /\ columns = 3 /\ effectiveViewMode = "paged"
        => pageSize = 9 /\ totalPages = 5)
  /\ (Len(filteredFiles) = 0 => totalPages = 1)
C6_Witness ==
  /\ Len(filteredFiles) = 40
  /\ columns = 3
  /\ effectiveViewMode = "paged"
  /\ totalPages = 5

\* C7: a step that changes the view mode the pagination hook sees leaves the
\* page cursor at 1.
C7_ModeSwitchResetsPage ==
  [][effectiveViewMode' # effectiveViewMode => page' = 1]_vars
\* the all view was chosen from a later page of the paged view
C7_Witness ==
  /\ last.op = "clickAll"
  /\ last.cur > 1
  /\ effectiveViewMode = "all"
  /\ page = 1

\* C8: goToPrev on the first page leaves the visible page the first, and goToNext
\* on the last page leaves the visible page the last.
C8_PrevNextAtEnds ==
  [][ /\ (last'.op = "goToPrev" /\ currentPage = 1 => currentPage' = 1)
      /\ (last'.op = "goToNext" /\ currentPage = totalPages
            => currentPage' = totalPages') ]_vars
\* goToNext was invoked on the last of several pages
C8_Witness ==
  /\ last.op = "goToNext"
  /\ totalPages > 1
  /\ last.cur = totalPages
  /\ currentPage = totalPages

\* C9: the effective view mode is all only for at most 30 credentials; above 30
\* it is paged, whatever the stored view mode.
C9_AllOnlyUpToThreshold ==
  /\ (effectiveViewMode = "all" => Len(filteredFiles) <= 30)
  /\ (Len(filteredFiles) > 30 => effectiveViewMode = "paged")
\* the stored mode is still all over a list that outgrew the threshold
C9_Witness ==
  /\ viewMode = "all"
  /\ Len(filteredFiles) > 30
  /\ effectiveViewMode = "paged"

\* C10: a click on the all-view button over more than 30 credentials leaves the
\* effective mode paged and shows the warning; over at most 30 it sets the mode to
\* all and leaves the warning as it was.
C10_AllClick ==
  [][ last'.op = "clickAll" =>
        IF Len(filteredFiles) > 30
        THEN effectiveViewMode' = "paged" /\ showTooManyWarning'
        ELSE /\ viewMode' = "all" /\ effectiveViewMode' = "all"
             /\ showTooManyWarning' = showTooManyWarning ]_vars
\* the all view was requested over 40 credentials
C10_Witness ==
  /\ last.op = "clickAll"
  /\ Len(filteredFiles) = 40
  /\ effectiveViewMode = "paged"
  /\ viewMode = "paged"
  /\ showTooManyWarning

\* C11: a batch over a non-empty list sets the busy flag and starts one fetch for
\* every credential of the list, each entry set to loading; the flag stays set
\* while a fetch is outstanding and is cleared by the step that settles the last
\* one; and when every fetch ends, a set flag is eventually cleared, whatever the
\* fetches ended with.
C11_BusyUntilAllSettled ==
  /\ [][ /\ (nBatches' # nBatches /\ filteredFiles' # <<>> =>
               /\ sectionLoading'
               /\ \A n \in Names(filteredFiles') :
                    <<nBatches', n>> \in inflight' /\ quotaMap'[n].status = "loading")
         /\ (inflight' # {} => sectionLoading')
         /\ (sectionLoading /\ inflight' = {} => ~sectionLoading') ]_vars
  /\ (sectionLoading ~> ~sectionLoading)
\* a batch of three has settled, one fetch failed and one succeeded
C11_Witness ==
  /\ last.op = "response"
  /\ nBatches = 1
  /\ Len(filteredFiles) = 3
  /\ inflight = {} /\ ~sectionLoading
  /\ \E a, b \in DOMAIN quotaMap :
       quotaMap[a].status = "error" /\ quotaMap[b].status = "success"

\* C12: the step that ends one credential's fetch writes that credential's entry
\* only: error with the status of the failure if the fetch failed, success if it
\* succeeded; every other entry of the quota map stays as it was.
C12_IndependentOutcomes ==
  [][ last'.op = "response" =>
        LET n == last'.name
            r == answers'[n]
        IN /\ DOMAIN quotaMap' = DOMAIN quotaMap \cup {n}
           /\ \A m \in DOMAIN quotaMap \ {n} : quotaMap'[m] = quotaMap[m]
           /\ (r.ok => quotaMap'[n].status = "success")
           /\ (~r.ok => quotaMap'[n].status = "error"
                        /\ quotaMap'[n].errorStatus = r.status) ]_vars
\* of two concurrent fetches one failed with 404 and the other succeeded
C12_Witness ==
  /\ last.op = "response"
  /\ inflight = {}
  /\ \E a, b \in Names(filteredFiles) :
       /\ a # b
       /\ a \in DOMAIN quotaMap /\ b \in DOMAIN quotaMap
       /\ quotaMap[a].status = "error" /\ quotaMap[a].errorStatus = 404
       /\ quotaMap[b].status = "success"

\* C13: a render in which the list is empty and loading is false, after one in
\* which the list was not empty or loading was true, leaves the quota map empty;
\* a step that ends with loading true discards no entry.
C13_ClearWhenEmpty ==
  [][ /\ (Len(filteredFiles') = 0 /\ ~loading' /\ (Len(filteredFiles) # 0 \/ loading)
            => quotaMap' = EmptyMap)
      /\ (loading' => DOMAIN quotaMap \subseteq DOMAIN quotaMap') ]_vars
\* the list became empty under a batch in flight: its loading entries are gone
C13_Witness ==
  /\ last.op = "files"
  /\ filteredFiles = <<>> /\ ~loading
  /\ inflight # {}
  /\ quotaMap = EmptyMap

\* C16: no lookup is ever issued for the credential without identifier; the step
\* that ends its fetch takes its entry from loading to error with the
\* missing-identifier message and no status, and leaves the other fetches of the
\* batch in flight.
C16_MissingIdentifierFailsFast ==
  [][ /\ \A r \in requests' : r[2] # EmptyName
      /\ (last'.op = "response" /\ last'.name = EmptyName =>
            /\ quotaMap[EmptyName].status = "loading"
            /\ quotaMap'[EmptyName].status = "error"
            /\ quotaMap'[EmptyName].error = "kiro_quota.missing_auth_id"
            /\ quotaMap'[EmptyName].errorStatus = Undefined
            /\ requests' = requests
            /\ inflight' = inflight \ {<<nBatches, EmptyName>>}) ]_vars
\* the fetch without identifier has failed while the two lookups of its batch
\* are still awaited
C16_Witness ==
  /\ last.op = "response" /\ last.name = EmptyName
  /\ quotaMap[EmptyName].error = "kiro_quota.missing_auth_id"
  /\ Len(filteredFiles) = 3
  /\ Cardinality(requests) = 2
  /\ requests = inflight
  /\ sectionLoading

\* C17: the quota map is a function of the replies alone, whatever the order they
\* came in: a name has an entry if its fetch was answered, each entry is the
\* state of the reply to that name's own fetch, or loading while there is none;
\* so it is once every response has arrived.
C17_OrderIndependent ==
  /\ DOMAIN answers \subseteq DOMAIN quotaMap
  /\ \A n \in DOMAIN quotaMap :
       quotaMap[n] = IF n \in DOMAIN answers THEN quotaStateOf(answers[n]) ELSE LoadingState
  /\ (inflight = {} => DOMAIN quotaMap = DOMAIN answers)
\* the first credential of the list was answered last, with another outcome
C17_Witness ==
  /\ last.op = "response"
  /\ Len(filteredFiles) = 2
  /\ last.name = filteredFiles[1]
  /\ inflight = {}
  /\ DOMAIN quotaMap = Names(filteredFiles)
  /\ quotaMap[filteredFiles[1]].status # quotaMap[filteredFiles[2]].status

Settled(state) == state.status \in {"success", "error"}

\* C18: the start of a batch leaves every credential of the list with the entry
\* loading and no items; the end of a fetch writes success with the items built
\* from the response and its subscription title, or error with the message and
\* the status of the failure; and no step takes an entry from one settled state
\* to another.
C18_LoadingThenOneFinalState ==
  [][ /\ (nBatches' # nBatches =>
            \A n \in Names(filteredFiles') :
              quotaMap'[n] = [status |-> "loading", items |-> <<>>])
      /\ (last'.op = "response" =>
            LET n == last'.name
                r == answers'[n]
            IN quotaMap'[n] =
                 IF r.ok
                 THEN [status |-> "success",
                       items |-> <<"credit_usage", "context_usage">>,
                       subscriptionTitle |-> IF r.subscription_title = "" THEN "undefined"
                                             ELSE r.subscription_title]
                 ELSE [status |-> "error", items |-> <<>>,
                       error |-> r.message, errorStatus |-> r.status])
      /\ \A n \in DOMAIN quotaMap \cap DOMAIN quotaMap' :
           Settled(quotaMap[n]) /\ Settled(quotaMap'[n]) => quotaMap'[n] = quotaMap[n] ]_vars
\* in a second batch one fetch has succeeded while the other entry, settled by
\* the first batch, is loading again
C18_Witness ==
  /\ last.op = "response"
  /\ nBatches = 2
  /\ Len(filteredFiles) = 2
  /\ quotaMap[last.name].status = "success"
  /\ quotaMap[last.name].subscriptionTitle = "Pro"
  /\ \E n \in Names(filteredFiles) : quotaMap[n] = LoadingState /\ <<2, n>> \in inflight

\* C19 as claimed: the pending flag is set while the fetches of a batch are in
\* flight.
C19_PendingWhileInFlight == inflight # {} => pendingRefreshRef
\* C19: the pending flag is cleared by the step that starts the batch, and it is
\* not set while a fetch is in flight.
C19_PendingClearedAtStart ==
  [][ /\ (nBatches' # nBatches => pendingRefreshRef /\ ~pendingRefreshRef')
      /\ (inflight' # {} => ~pendingRefreshRef') ]_vars
\* the batch has just started, nothing has settled, and the flag is clear
C19_Witness ==
  /\ last.op = "reloaded"
  /\ nBatches = 1
  /\ inflight = {<<1, n>> : n \in Names(filteredFiles)}
  /\ inflight # {}
  /\ \A n \in Names(filteredFiles) : quotaMap[n] = LoadingState
  /\ ~pendingRefreshRef

\* C14: every width change of the rendered grid container sets columns to
\* max(1, floor(width / 380)), also for a container that appears after the
\* section was mounted with an empty list or after the list was empty; and
\* columns is at least 1.
C14_ColumnsFollowWidth ==
  /\ [](columns >= 1)
  /\ [][ last'.op = "layout" =>
           columns' = Max(1, last'.width \div 380) ]_vars

\* C15: once the grid container has left the tree, by the teardown of the section
\* or by an empty list, no observer is connected to it, and the columns change
\* only on a report about the rendered container.
C15_ObserverReleased ==
  /\ [](~mounted \/ Len(filteredFiles) = 0 => observed \in {"none", "disconnected"})
  /\ [][ observed # "current" => columns' = columns ]_vars

\* the names a batch has just started a fetch for
Started(left, b) == {r[2] : r \in {x \in left : x[1] = b}}

C21_StaleResponseWrites ==
  [][ /\ (last'.op \in {"files", "loading", "reloaded"} => inflight \subseteq inflight')
      /\ (last'.op = "response" /\ Len(filteredFiles) = 0 /\ ~loading =>
            /\ last'.name \in DOMAIN quotaMap'
            /\ Settled(quotaMap'[last'.name])
            /\ Len(filteredFiles') = 0 /\ ~loading') ]_vars
\* the list became empty during the only batch, and a response has written into
\* the cleared map
C21_Witness ==
  /\ last.op = "response"
  /\ nBatches = 1
  /\ filteredFiles = <<>>
  /\ ~loading
  /\ DOMAIN quotaMap = {last.name}
  /\ Settled(quotaMap[last.name])

\* C22: when the loading-completion effect fires over an empty list it clears
\* the pending flag, starts no fetch and leaves the busy flag clear; and no batch
\* starts without a click since the last firing.
C22_EmptyListConsumesRequest ==
  [][ /\ (nBatches' # nBatches /\ Len(filteredFiles') = 0 =>
            /\ pendingRefreshRef /\ ~pendingRefreshRef'
            /\ inflight' = inflight
            /\ ~sectionLoading'
            /\ clicksSinceBatch' = 0)
      /\ (nBatches' # nBatches => clicksSinceBatch > 0 /\ loading /\ ~loading') ]_vars
\* the effect has just fired over the list that the reload left empty
C22_Witness ==
  /\ last.op = "reloaded" /\ last.fired
  /\ nClicks = 1 /\ nBatches = 1
  /\ filteredFiles = <<>>
  /\ ~pendingRefreshRef
  /\ inflight = {} /\ ~sectionLoading

\* C23: while the request of a credential is unanswered its entry is loading, and
\* stays so over every step; every other credential of the batch, its request
\* answered, leaves loading for success or error.
C23_HungStaysLoading ==
  /\ [][ (\E r \in inflight : r = <<nBatches, Hung>>) =>
           (/\ \E r \in inflight' : r = <<nBatches', Hung>>
            /\ Hung \in DOMAIN quotaMap'
            /\ quotaMap'[Hung] = LoadingState) ]_vars
  /\ \A n \in Answering :
       (\E r \in inflight : r[2] = n)
         ~> (n \in DOMAIN quotaMap /\ Settled(quotaMap[n]) /\ ~\E r \in inflight : r[2] = n)
\* of a batch of three only the unanswered request is left, the others settled
C23_Witness ==
  /\ Len(filteredFiles) = 3
  /\ inflight = {<<1, Hung>>}
  /\ quotaMap[Hung] = LoadingState
  /\ \A n \in Names(filteredFiles) \ {Hung} : Settled(quotaMap[n])
  /\ \E n \in Names(filteredFiles) : quotaMap[n].status = "success"

\* C24: the downgrade is queued exactly while the stored mode is all over more
\* than 30 credentials; the deferred step sets the stored mode to paged and shows
\* the warning; a queued step that is cancelled, by the count falling to 30 or
\* fewer or by a change of the mode, changes neither the warning nor, on a change
\* of the list, the mode; and the stored mode leaves paged only by a click on the
\* all-view button over at most 30 credentials.
C24_AutoDowngrade ==
  /\ [](autoSwitchQueued = (viewMode = "all" /\ ~showAllAllowed))
  /\ [][ /\ (last'.op = "autoSwitch" =>
               /\ viewMode = "all" /\ ~showAllAllowed
               /\ viewMode' = "paged" /\ showTooManyWarning')
         /\ (autoSwitchQueued /\ last'.op # "autoSwitch" /\ ~autoSwitchQueued' =>
               /\ showAllAllowed' \/ viewMode' # "all"
               /\ showTooManyWarning' = showTooManyWarning
               /\ (last'.op = "files" => viewMode' = viewMode))
         /\ (viewMode = "paged" /\ viewMode' = "all" =>
               last'.op = "clickAll" /\ showAllAllowed) ]_vars
\* the deferred step has run over a list that outgrew the threshold
C24_Witness ==
  /\ last.op = "autoSwitch"
  /\ Len(filteredFiles) > 30
  /\ viewMode = "paged"
  /\ showTooManyWarning
  /\ ~autoSwitchQueued

\* C25: goToPrev, invoked where the Prev control is enabled (currentPage > 1),
\* makes the visible page currentPage - 1, also where the stored page cursor
\* exceeds totalPages.
C25_PrevShowsPreviousPage ==
  [][ last'.op = "goToPrev" /\ currentPage > 1 => currentPage' = currentPage - 1 ]_vars

\* C26: the slices of the pages 1..totalPages are runs of the list in its order:
\* the first begins at the first item, each next one begins where the one before
\* ends, the last ends at the last item, so that every item is in exactly one of
\* them; none is longer than pageSize, and the slice of the current page is not
\* empty unless the list is.
C26_SlicesPartition ==
  LET n == Len(filteredFiles)
      slice(p) == pageItemsOf(filteredFiles, p, pageSize)
      start(p) == (p - 1) * pageSize
  IN /\ \A p \in 1..totalPages :
          /\ Len(slice(p)) <= pageSize
          /\ start(p) + Len(slice(p)) <= n
          /\ \A i \in 1..Len(slice(p)) : slice(p)[i] = filteredFiles[start(p) + i]
          /\ (p < totalPages => Len(slice(p)) = pageSize)
          /\ (p = totalPages => start(p) + Len(slice(p)) = n)
     /\ pageItems = slice(currentPage)
     /\ (n > 0 => Len(pageItems) >= 1)
\* 40 items in pages of 9: the last page, the current one, holds the 4 left over
C26_Witness ==
  /\ Len(filteredFiles) = 40
  /\ pageSize = 9
  /\ currentPage = totalPages
  /\ pageItems = <<37, 38, 39, 40>>

\* C27: every fetch in flight belongs to the last call of loadAllQuotas, and while
\* a fetch is in flight the busy flag is set and no refresh is pending: no batch
\* starts before the one before has settled.
C27_OneBatchInFlight ==
  /\ \A r \in inflight : r[1] = nBatches
  /\ (inflight # {} => sectionLoading /\ ~pendingRefreshRef)
\* the second batch has just started, nothing of the first is left
C27_Witness ==
  /\ last.op \in {"loading", "reloaded"} /\ last.fired
  /\ nClicks = 2 /\ nBatches = 2
  /\ inflight = {<<2, n>> : n \in Names(filteredFiles)}
  /\ Len(filteredFiles) = 2

\* C28: an entry of the quota map is loading only while the busy flag is set.
C28_LoadingImpliesBusy ==
  (\E n \in DOMAIN quotaMap : quotaMap[n].status = "loading") => sectionLoading
\* one fetch of a batch of two has settled with an error, the other entry is
\* loading and the flag is set
C28_Witness ==
  /\ last.op = "response"
  /\ sectionLoading
  /\ Len(filteredFiles) = 2
  /\ quotaMap[last.name].status = "error"
  /\ \E n \in Names(filteredFiles) : n # last.name /\ quotaMap[n].status = "loading"

====
